---- MODULE Spec2Model ----
(***************************************************************************)
(* ISOForge: the configuration form (src/App.tsx) and the blueprint        *)
(* generator (src/services/geminiService.ts).                              *)
(*                                                                         *)
(* The React component App keeps six useState hooks.  A handler reads the  *)
(* values of the render that created it (its closure) and queues updates;  *)
(* the next render applies the queue in order.  Two schedulings of the     *)
(* re-render are specified:                                                *)
(*   Spec       every handler call is committed before the next handler    *)
(*              runs (what the browser gives one user event at a time);    *)
(*   SpecBatch  handler calls queue their updates and Render applies them  *)
(*              later, so several calls can read the same closure.         *)
(*                                                                         *)
(* A BuildLog's timestamp (wall-clock text, src/App.tsx:98) is read by no  *)
(* operation and is left out of the log entries.                           *)
(***************************************************************************)
EXTENDS Integers, Sequences, FiniteSets, TLC

VARIABLES
  config,          \* useState<ISOConfig>          src/App.tsx:80
  newPackage,      \* useState('')                 src/App.tsx:91
  isGenerating,    \* useState(false)              src/App.tsx:92
  logs,            \* useState<BuildLog[]>([])     src/App.tsx:93
  generatedFiles,  \* useState<GeneratedFile[]>([]) src/App.tsx:94
  activeStep,      \* useState(1)                  src/App.tsx:95
  pending,         \* updates queued by setState calls, not yet rendered
  inv,             \* the handleGenerate invocations, in order of start
  exported,        \* the documents handed to the browser by downloadAll
  crashed,         \* a render threw: React unmounted the component tree
  events           \* number of UI events dispatched so far

vars == <<config, newPackage, isGenerating, logs, generatedFiles, activeStep,
          pending, inv, exported, crashed, events>>

hooks == <<config, newPackage, isGenerating, logs, generatedFiles, activeStep>>

----------------------------------------------------------------------------
(* Bounds of the model.                                                    *)

MaxEvents == 3
MaxInvocations == 2
MaxArtifacts == 2

----------------------------------------------------------------------------
(* src/types.ts                                                            *)

OS == {"Ubuntu", "Debian", "Arch Linux", "Fedora", "Alpine Linux"}

Arch == {"x86_64", "aarch64"}

LogTypes == {"info", "success", "warning", "error"}

----------------------------------------------------------------------------
(* src/App.tsx: TEMPLATES and the initial configuration.  None of them     *)
(* carries the optional password key.                                      *)

TEMPLATES ==
  << [ id |-> "ubuntu-server",
       config |->
         [ os |-> "Ubuntu", version |-> "24.04 LTS", architecture |-> "x86_64",
           hostname |-> "ubuntu-srv", username |-> "sysadmin",
           packages |-> <<"openssh-server", "htop", "curl", "ufw", "fail2ban">>,
           customScripts |->
             "Enable UFW and allow port 22 by default. Set up a basic hardening script.",
           isCloudInitEnabled |-> TRUE ] ],
     [ id |-> "debian-desktop",
       config |->
         [ os |-> "Debian", version |-> "12 (Bookworm)", architecture |-> "x86_64",
           hostname |-> "debian-work", username |-> "user",
           packages |-> <<"task-gnome-desktop", "firefox-esr", "libreoffice", "vlc", "git">>,
           customScripts |->
             "Install non-free firmware and configure desktop environment scaling for 4K.",
           isCloudInitEnabled |-> FALSE ] ],
     [ id |-> "fedora-cloud",
       config |->
         [ os |-> "Fedora", version |-> "40", architecture |-> "x86_64",
           hostname |-> "fedora-cloud-node", username |-> "fedora",
           packages |-> <<"python3", "dnf-plugins-core", "qemu-guest-agent", "cockpit">>,
           customScripts |->
             "Configure cockpit for remote management and optimize swap settings for cloud instances.",
           isCloudInitEnabled |-> TRUE ] ] >>

InitialConfig ==
  [ os |-> "Ubuntu", version |-> "24.04 LTS", architecture |-> "x86_64",
    hostname |-> "isoforge-node", username |-> "admin",
    packages |-> <<"vim", "curl", "docker.io", "git">>,
    customScripts |-> "", isCloudInitEnabled |-> TRUE ]

----------------------------------------------------------------------------
(* JSON values, as JSON.parse builds them and JSON.stringify reads them.   *)
(* An object keeps its members in insertion order, one per key.            *)

JNull == [t |-> "null"]

JBool(b) == [t |-> "boolean", b |-> b]

JNum(n) == [t |-> "number", n |-> n]

JStr(s) == [t |-> "string", s |-> s]

JArr(a) == [t |-> "array", a |-> a]

JObj(m) == [t |-> "object", m |-> m]

\* The character of text s at position i, "" past either end.
Ch(s, i) == IF i >= 1 /\ i <= Len(s) THEN SubSeq(s, i, i) ELSE ""

Whitespace == {" ", "\t", "\n", "\r"}

Digits == <<"0", "1", "2", "3", "4", "5", "6", "7", "8", "9">>

IsDigit(c) == \E d \in 1..10 : Digits[d] = c

DigitValue(c) == (CHOOSE d \in 1..10 : Digits[d] = c) - 1

\* The escapes of a JSON string that a string of this model can hold
\* (\b and \uXXXX name characters outside it and do not occur in the texts).
Unescape(e) ==
  CASE e = "\"" -> "\""
    [] e = "\\" -> "\\"
    [] e = "/"  -> "/"
    [] e = "n"  -> "\n"
    [] e = "t"  -> "\t"
    [] e = "r"  -> "\r"
    [] e = "f"  -> "\f"

Escapable == {"\"", "\\", "/", "n", "t", "r", "f"}

ControlChars == {"\n", "\t", "\r", "\f"}

ParseFail == [ok |-> FALSE]

ParseOk(v, p) == [ok |-> TRUE, v |-> v, p |-> p]

RECURSIVE SkipWs(_, _)
SkipWs(s, i) == IF Ch(s, i) \in Whitespace THEN SkipWs(s, i + 1) ELSE i

\* The characters of a string literal from position i (after its opening quote).
RECURSIVE ParseChars(_, _, _)
ParseChars(s, i, acc) ==
  LET c == Ch(s, i) IN
  IF c = "" \/ c \in ControlChars THEN ParseFail
  ELSE IF c = "\"" THEN ParseOk(acc, i + 1)
  ELSE IF c = "\\" THEN
    IF Ch(s, i + 1) \in Escapable
      THEN ParseChars(s, i + 2, acc \o Unescape(Ch(s, i + 1)))
      ELSE ParseFail
  ELSE ParseChars(s, i + 1, acc \o c)

\* An integer literal from position i (fractions and exponents do not occur
\* in the texts of this model).
RECURSIVE ParseDigits(_, _, _)
ParseDigits(s, i, acc) ==
  IF IsDigit(Ch(s, i)) THEN ParseDigits(s, i + 1, acc * 10 + DigitValue(Ch(s, i)))
  ELSE ParseOk(JNum(acc), i)

ParseNumber(s, i) ==
  IF Ch(s, i) = "0" /\ IsDigit(Ch(s, i + 1)) THEN ParseFail
  ELSE ParseDigits(s, i, 0)

HasKey(m, k) == \E j \in 1..Len(m) : m[j].k = k

\* A later member of the same key replaces the value and keeps the place.
SetMember(m, k, v) ==
  IF HasKey(m, k)
    THEN [j \in 1..Len(m) |-> IF m[j].k = k THEN [k |-> k, v |-> v] ELSE m[j]]
    ELSE Append(m, [k |-> k, v |-> v])

Literal(s, i, word) ==
  i + Len(word) - 1 <= Len(s) /\ SubSeq(s, i, i + Len(word) - 1) = word

RECURSIVE ParseValue(_, _)
RECURSIVE ParseElements(_, _, _)
RECURSIVE ParseMembers(_, _, _)

\* Elements of an array: position i is where the next element must start.
ParseElements(s, i, acc) ==
  LET e == ParseValue(s, i) IN
  IF ~e.ok THEN ParseFail
  ELSE LET j == SkipWs(s, e.p) IN
       IF Ch(s, j) = "," THEN ParseElements(s, j + 1, Append(acc, e.v))
       ELSE IF Ch(s, j) = "]" THEN ParseOk(JArr(Append(acc, e.v)), j + 1)
       ELSE ParseFail

\* Members of an object: position i is where the next key must start.
ParseMembers(s, i, acc) ==
  LET a == SkipWs(s, i) IN
  IF Ch(s, a) # "\"" THEN ParseFail
  ELSE LET k == ParseChars(s, a + 1, "") IN
       IF ~k.ok THEN ParseFail
       ELSE LET c == SkipWs(s, k.p) IN
            IF Ch(s, c) # ":" THEN ParseFail
            ELSE LET e == ParseValue(s, c + 1) IN
                 IF ~e.ok THEN ParseFail
                 ELSE LET j == SkipWs(s, e.p)
                          m == SetMember(acc, k.v, e.v)
                      IN IF Ch(s, j) = "," THEN ParseMembers(s, j + 1, m)
                         ELSE IF Ch(s, j) = "}" THEN ParseOk(JObj(m), j + 1)
                         ELSE ParseFail

ParseValue(s, i) ==
  LET a == SkipWs(s, i)
      c == Ch(s, a)
  IN CASE c = "[" ->
            IF Ch(s, SkipWs(s, a + 1)) = "]"
              THEN ParseOk(JArr(<<>>), SkipWs(s, a + 1) + 1)
              ELSE ParseElements(s, a + 1, <<>>)
       [] c = "{" ->
            IF Ch(s, SkipWs(s, a + 1)) = "}"
              THEN ParseOk(JObj(<<>>), SkipWs(s, a + 1) + 1)
              ELSE ParseMembers(s, a + 1, <<>>)
       [] c = "\"" ->
            LET r == ParseChars(s, a + 1, "") IN
            IF r.ok THEN ParseOk(JStr(r.v), r.p) ELSE ParseFail
       [] IsDigit(c) -> ParseNumber(s, a)
       [] c = "t" -> IF Literal(s, a, "true") THEN ParseOk(JBool(TRUE), a + 4) ELSE ParseFail
       [] c = "f" -> IF Literal(s, a, "false") THEN ParseOk(JBool(FALSE), a + 5) ELSE ParseFail
       [] c = "n" -> IF Literal(s, a, "null") THEN ParseOk(JNull, a + 4) ELSE ParseFail
       [] OTHER -> ParseFail

\* JSON.parse(text): [ok |-> TRUE, v |-> value], or [ok |-> FALSE] where
\* JSON.parse throws SyntaxError.
JSONparse(text) ==
  LET r == ParseValue(text, 1) IN
  IF r.ok /\ SkipWs(text, r.p) = Len(text) + 1
    THEN [ok |-> TRUE, v |-> r.v]
    ELSE ParseFail

\* JSON.stringify's QuoteJSONString.
RECURSIVE QuoteChars(_, _)
QuoteChars(s, i) ==
  IF i > Len(s) THEN ""
  ELSE LET c == Ch(s, i)
           q == CASE c = "\"" -> "\\\""
                  [] c = "\\" -> "\\\\"
                  [] c = "\n" -> "\\n"
                  [] c = "\t" -> "\\t"
                  [] c = "\r" -> "\\r"
                  [] c = "\f" -> "\\f"
                  [] OTHER    -> c
       IN q \o QuoteChars(s, i + 1)

Quote(s) == "\"" \o QuoteChars(s, 1) \o "\""

Gap == "  "

\* JSON.stringify(v, null, 2) at indentation ind.
RECURSIVE Stringify(_, _)
RECURSIVE StringifyElements(_, _, _)
RECURSIVE StringifyMembers(_, _, _)

StringifyElements(a, j, ind) ==
  ind \o Stringify(a[j], ind)
      \o (IF j < Len(a) THEN ",\n" \o StringifyElements(a, j + 1, ind) ELSE "")

StringifyMembers(m, j, ind) ==
  ind \o Quote(m[j].k) \o ": " \o Stringify(m[j].v, ind)
      \o (IF j < Len(m) THEN ",\n" \o StringifyMembers(m, j + 1, ind) ELSE "")

Stringify(v, ind) ==
  CASE v.t = "null"    -> "null"
    [] v.t = "boolean" -> IF v.b THEN "true" ELSE "false"
    [] v.t = "number"  -> ToString(v.n)
    [] v.t = "string"  -> Quote(v.s)
    [] v.t = "array"   ->
         IF v.a = <<>> THEN "[]"
         ELSE "[\n" \o StringifyElements(v.a, 1, ind \o Gap) \o "\n" \o ind \o "]"
    [] v.t = "object"  ->
         IF v.m = <<>> THEN "{}"
         ELSE "{\n" \o StringifyMembers(v.m, 1, ind \o Gap) \o "\n" \o ind \o "}"

JSONstringify(v) == Stringify(v, "")

\* Reading property k of a value: the member's value, or undefined.
Undefined == [t |-> "undefined"]

Get(v, k) ==
  IF v.t = "object" /\ HasKey(v.m, k)
    THEN (CHOOSE e \in {v.m[j] : j \in 1..Len(v.m)} : e.k = k).v
    ELSE Undefined

----------------------------------------------------------------------------
(* src/services/geminiService.ts: generateISOBlueprint.                    *)

RECURSIVE Join(_, _)
Join(seq, sep) ==
  IF seq = <<>> THEN ""
  ELSE IF Len(seq) = 1 THEN seq[1]
  ELSE seq[1] \o sep \o Join(Tail(seq), sep)

\* The template literal of lines 9-23.
Prompt(c) ==
  "Generate a complete set of configuration files for a bootable " \o c.os \o " ISO.\n"
  \o "  Target Architecture: " \o c.architecture \o "\n"
  \o "  Hostname: " \o c.hostname \o "\n"
  \o "  User: " \o c.username \o "\n"
  \o "  Included Packages: " \o Join(c.packages, ", ") \o "\n"
  \o "  Cloud-Init: " \o (IF c.isCloudInitEnabled THEN "Enabled" ELSE "Disabled") \o "\n"
  \o "  Custom Instructions: " \o c.customScripts \o "\n"
  \o "\n"
  \o "  Provide a professional set of files including:\n"
  \o "  1. A README.md with detailed instructions on how to use xorriso/mkisofs to build this.\n"
  \o "  2. The main installation configuration (e.g., user-data for Ubuntu/Cloud-init, preseed.cfg for Debian, or answers.yaml for Alpine).\n"
  \o "  3. A shell script (build.sh) that automates the image creation process.\n"
  \o "  4. A secondary config file (e.g., grub.cfg or isolinux.cfg).\n"
  \o "\n"
  \o "  Ensure the output is a valid JSON array of objects with 'name', 'content', and 'language' fields."

\* Mutant of BlueprintOf: keeps the first artifact of each name.
BlueprintOfUniqueNames(text) ==
  LET r == JSONparse(IF text = "" THEN "[]" ELSE text) IN
  IF ~r.ok THEN JArr(<<>>)
  ELSE IF r.v.t # "array" THEN r.v
  ELSE JArr(SelectSeq(r.v.a, LAMBDA e :
         \A j \in 1..Len(r.v.a) :
           (r.v.a[j] # e /\ Get(r.v.a[j], "name") = Get(e, "name")) =>
             \E h \in 1..j : r.v.a[h] = e))

\* Lines 45-50: what generateISOBlueprint returns for response text `text`
\* ("" stands for an empty or absent text, both falsy).
BlueprintOf(text) ==
  LET r == JSONparse(IF text = "" THEN "[]" ELSE text) IN
  IF r.ok THEN r.v ELSE JArr(<<>>)

----------------------------------------------------------------------------
(* Inputs of the model: what the user types or picks, what the completion  *)
(* service answers.                                                        *)

OSInputs == OS

ArchInputs == Arch

VersionInputs == {"22.04 LTS"}

HostnameInputs == {"build-01"}

UsernameInputs == {"root"}

CustomScriptInputs == {"Configure a static IP for eth0"}

PackageInputs == {"", "nginx", "curl"}

\* Two artifacts of the same name, with escapes in their contents.
TwoArtifacts ==
  "[{\"name\":\"README.md\",\"content\":\"# Build\\nrun \\\"build.sh\\\"\",\"language\":\"markdown\"},"
    \o "{\"name\":\"README.md\",\"content\":\"C:\\\\iso\\tout\",\"language\":\"markdown\"}]"

OneArtifact ==
  "[\n  {\"name\": \"grub.cfg\", \"content\": \"set timeout=5\", \"language\": \"ini\"}\n]"

NotJSON == "I'm sorry, I can't help with that."

\* Response texts: conforming arrays, an empty text, text that is no JSON, and
\* JSON of another shape (an object, an array whose element lacks fields, null).
Responses ==
  { TwoArtifacts, OneArtifact, "", NotJSON,
    "{\"error\":\"RESOURCE_EXHAUSTED\"}", "[{\"name\":\"preseed.cfg\"}]", "null" }

\* The responses drawn under SpecBatch.
BatchResponses == {OneArtifact, NotJSON}

ErrorMessages == {"fetch failed"}

\* What generateISOBlueprint returns for each response text of the model.
Blueprints == [text \in Responses |-> BlueprintOf(text)]

----------------------------------------------------------------------------
(* React state: the values of the last render, and the queued updates.     *)

St ==
  [ config |-> config, newPackage |-> newPackage, isGenerating |-> isGenerating,
    logs |-> logs, generatedFiles |-> generatedFiles, activeStep |-> activeStep ]

\* setX(value)
SetValue(hook, v) == [hook |-> hook, fn |-> "value", arg |-> v]

\* setConfig(prev => ({ ...prev, packages: [...prev.packages, p] }))
AppendPackage(p) == [hook |-> "config", fn |-> "appendPackage", arg |-> p]

\* setConfig(prev => ({ ...prev, packages: prev.packages.filter(q => q !== p) }))
FilterPackage(p) == [hook |-> "config", fn |-> "filterPackage", arg |-> p]

\* addLog: setLogs(prev => [...prev, { timestamp, message, type }])
addLog(message, type) ==
  [hook |-> "logs", fn |-> "appendLog", arg |-> [message |-> message, type |-> type]]

\* One queued update applied to the state s.
Reduce(s, u) ==
  CASE u.fn = "value" -> [s EXCEPT ![u.hook] = u.arg]
    [] u.fn = "appendPackage" ->
         [s EXCEPT !.config = [@ EXCEPT !.packages = Append(@, u.arg)]]
    [] u.fn = "filterPackage" ->
         [s EXCEPT !.config = [@ EXCEPT !.packages = SelectSeq(@, LAMBDA q : q # u.arg)]]
    [] u.fn = "appendLog" -> [s EXCEPT !.logs = Append(@, u.arg)]

RECURSIVE ApplyAll(_, _)
ApplyAll(s, ups) == IF ups = <<>> THEN s ELSE ApplyAll(Reduce(s, Head(ups)), Tail(ups))

\* generatedFiles.length > 0 (src/App.tsx:400, 412); reading .length of null throws.
HasFiles(g) ==
  \/ g.t = "array" /\ g.a # <<>>
  \/ g.t = "string" /\ g.s # ""

\* Whether rendering App with state s throws (no error boundary: React then
\* unmounts the tree).  Lines 400-413 read generatedFiles.length; FileTabs
\* (lines 478-492) calls files.map, reads file.name of every element and renders
\* file.name and files[0].content as children.
RenderThrows(s) ==
  LET g == s.generatedFiles IN
  \/ g.t = "null"
  \/ g.t = "string" /\ g.s # ""
  \/ /\ g.t = "array"
     /\ g.a # <<>>
     /\ \/ \E j \in 1..Len(g.a) : g.a[j].t = "null"
        \/ \E j \in 1..Len(g.a) : Get(g.a[j], "name").t = "object"
        \/ Get(g.a[1], "content").t = "object"

\* The render that commits state s.
Commit(s) ==
  /\ config' = s.config
  /\ newPackage' = s.newPackage
  /\ isGenerating' = s.isGenerating
  /\ logs' = s.logs
  /\ generatedFiles' = s.generatedFiles
  /\ activeStep' = s.activeStep
  /\ crashed' = RenderThrows(s)

\* The setState calls `ups` of one handler call.  With batched = FALSE the
\* re-render follows at once; with batched = TRUE they wait for Render.
\* Updates of an unmounted component are dropped.
Dispatch(batched, ups) ==
  IF crashed THEN UNCHANGED <<hooks, pending, crashed>>
  ELSE IF batched THEN pending' = pending \o ups /\ UNCHANGED <<hooks, crashed>>
  ELSE pending' = <<>> /\ Commit(ApplyAll(St, pending \o ups))

Render ==
  /\ ~crashed
  /\ pending # <<>>
  /\ Commit(ApplyAll(St, pending))
  /\ pending' = <<>>
  /\ UNCHANGED <<inv, exported, events>>

\* A UI event can be dispatched: the tree is mounted.
UIEvent ==
  /\ ~crashed
  /\ events < MaxEvents
  /\ events' = events + 1

----------------------------------------------------------------------------
(* src/App.tsx: the handlers.  Each reads config, newPackage, isGenerating *)
(* and generatedFiles of the last render.                                  *)

Includes(seq, x) == \E j \in 1..Len(seq) : seq[j] = x

EmptyFiles == JArr(<<>>)

\* Mutant of loadTemplate: the artifact list is left as it was.
loadTemplateKeepsFiles(b, templateConfig) ==
  /\ UIEvent
  /\ Dispatch(b, << SetValue("config", templateConfig),
                    SetValue("logs", <<>>),
                    addLog("Loaded " \o templateConfig.os \o " template configuration.", "info") >>)
  /\ UNCHANGED <<inv, exported>>

\* Lines 102-107.
loadTemplate(b, templateConfig) ==
  /\ UIEvent
  /\ Dispatch(b, << SetValue("config", templateConfig),
                    SetValue("generatedFiles", EmptyFiles),
                    SetValue("logs", <<>>),
                    addLog("Loaded " \o templateConfig.os \o " template configuration.", "info") >>)
  /\ UNCHANGED <<inv, exported>>

\* Mutant of MayAddPackage: the empty name is not tested for.
MayAddPackageUnchecked == ~Includes(config.packages, newPackage)

\* Line 110: the test addPackage makes on its closure.
MayAddPackage == newPackage # "" /\ ~Includes(config.packages, newPackage)

\* Lines 109-114.
addPackage(b) ==
  /\ UIEvent
  /\ Dispatch(b, IF MayAddPackage
                   THEN <<AppendPackage(newPackage), SetValue("newPackage", "")>>
                   ELSE <<>>)
  /\ UNCHANGED <<inv, exported>>

\* Lines 116-118; the remove button exists for the packages of the last render
\* (lines 332-341).
removePackage(b, pkg) ==
  /\ UIEvent
  /\ Includes(config.packages, pkg)
  /\ Dispatch(b, <<FilterPackage(pkg)>>)
  /\ UNCHANGED <<inv, exported>>

\* Line 319.
TypePackage(b, text) ==
  /\ UIEvent
  /\ Dispatch(b, <<SetValue("newPackage", text)>>)
  /\ UNCHANGED <<inv, exported>>

\* Lines 230, 248, 260, 280, 289, 299, 349: setConfig({...config, field: value}).
EditField(b, field, value) ==
  /\ UIEvent
  /\ Dispatch(b, <<SetValue("config", [config EXCEPT ![field] = value])>>)
  /\ UNCHANGED <<inv, exported>>

SelectOS(b) == \E os \in OSInputs : EditField(b, "os", os)

SelectArchitecture(b) == \E a \in ArchInputs : EditField(b, "architecture", a)

EditVersion(b) == \E v \in VersionInputs : EditField(b, "version", v)

EditHostname(b) == \E h \in HostnameInputs : EditField(b, "hostname", h)

EditUsername(b) == \E u \in UsernameInputs : EditField(b, "username", u)

ToggleCloudInit(b) == EditField(b, "isCloudInitEnabled", ~config.isCloudInitEnabled)

EditCustomScripts(b) == \E t \in CustomScriptInputs : EditField(b, "customScripts", t)

\* Mutant of ForgeEnabled: the button is never disabled.
ForgeAlwaysEnabled == TRUE

\* Lines 356-358: the Forge button of the last render is disabled while
\* isGenerating.
ForgeEnabled == ~isGenerating

\* Mutant of handleGenerate: no state is touched before the call is issued.
handleGenerateDefersState(b) ==
  /\ UIEvent
  /\ ForgeEnabled
  /\ Len(inv) < MaxInvocations
  /\ Dispatch(b, <<>>)
  /\ inv' = Append(inv, [ pc |-> "call", config |-> config, prompt |-> Prompt(config),
                          outcome |-> "pending", text |-> "", files |-> EmptyFiles ])
  /\ UNCHANGED exported

\* Mutant of handleGenerate: the artifact list of the last generation stays
\* on display while the new one runs.
handleGenerateKeepsFiles(b) ==
  /\ UIEvent
  /\ ForgeEnabled
  /\ Len(inv) < MaxInvocations
  /\ Dispatch(b, << SetValue("isGenerating", TRUE),
                    SetValue("logs", <<>>),
                    addLog("Initializing ISOForge AI engine...", "info"),
                    addLog("Target Distribution: " \o config.os \o " " \o config.version, "info"),
                    addLog("Consulting AI Architect for optimal partitioning and package dependencies...", "info") >>)
  /\ inv' = Append(inv, [ pc |-> "call", config |-> config, prompt |-> Prompt(config),
                          outcome |-> "pending", text |-> "", files |-> EmptyFiles ])
  /\ UNCHANGED exported

\* Lines 120-129, up to the await of generateISOBlueprint(config): the state
\* updates, and the request (geminiService.ts lines 8-43) on its way.
handleGenerate(b) ==
  /\ UIEvent
  /\ ForgeEnabled
  /\ Len(inv) < MaxInvocations
  /\ Dispatch(b, << SetValue("isGenerating", TRUE),
                    SetValue("generatedFiles", EmptyFiles),
                    SetValue("logs", <<>>),
                    addLog("Initializing ISOForge AI engine...", "info"),
                    addLog("Target Distribution: " \o config.os \o " " \o config.version, "info"),
                    addLog("Consulting AI Architect for optimal partitioning and package dependencies...", "info") >>)
  /\ inv' = Append(inv, [ pc |-> "call", config |-> config, prompt |-> Prompt(config),
                          outcome |-> "pending", text |-> "", files |-> EmptyFiles ])
  /\ UNCHANGED exported

\* Mutant of CallResolves: isGenerating is reset as soon as the call returns.
CallResolvesIdleEarly(i, text) ==
  /\ i <= Len(inv)
  /\ inv[i].pc = "call"
  /\ UNCHANGED <<exported, events>>
  /\ Dispatch(FALSE, <<SetValue("isGenerating", FALSE)>>)
  /\ inv' = [inv EXCEPT ![i] = [@ EXCEPT !.pc = "t800", !.outcome = "resolved",
                                         !.text = text, !.files = Blueprints[text]]]

\* geminiService.ts lines 25-50 and App.tsx lines 129-131: the call resolves
\* with response text `text`; generateISOBlueprint returns, handleGenerate
\* binds files and waits for the 800 ms timer.
CallResolves(i, text) ==
  /\ i <= Len(inv)
  /\ inv[i].pc = "call"
  /\ UNCHANGED <<hooks, pending, crashed, exported, events>>
  /\ inv' = [inv EXCEPT ![i] = [@ EXCEPT !.pc = "t800", !.outcome = "resolved",
                                         !.text = text, !.files = Blueprints[text]]]

\* Mutant of CallRejects: no finally block.
CallRejectsNoFinally(b, i, msg) ==
  /\ i <= Len(inv)
  /\ inv[i].pc = "call"
  /\ inv' = [inv EXCEPT ![i] = [@ EXCEPT !.pc = "done", !.outcome = "rejected", !.text = msg]]
  /\ Dispatch(b, <<addLog("Architectural failure: " \o msg, "error")>>)
  /\ UNCHANGED <<exported, events>>

\* Lines 141-145: the call rejects with an Error of message msg.
CallRejects(b, i, msg) ==
  /\ i <= Len(inv)
  /\ inv[i].pc = "call"
  /\ inv' = [inv EXCEPT ![i] = [@ EXCEPT !.pc = "done", !.outcome = "rejected", !.text = msg]]
  /\ Dispatch(b, << addLog("Architectural failure: " \o msg, "error"),
                    SetValue("isGenerating", FALSE) >>)
  /\ UNCHANGED <<exported, events>>

\* Lines 131-133: the 800 ms timer fires.
Timer800(b, i) ==
  /\ i <= Len(inv)
  /\ inv[i].pc = "t800"
  /\ inv' = [inv EXCEPT ![i].pc = "t600"]
  /\ Dispatch(b, <<addLog("Analyzing package manifest...", "info")>>)
  /\ UNCHANGED <<exported, events>>

\* Lines 133-135: the 600 ms timer fires.
Timer600(b, i) ==
  /\ i <= Len(inv)
  /\ inv[i].pc = "t600"
  /\ inv' = [inv EXCEPT ![i].pc = "t1000"]
  /\ Dispatch(b, <<addLog("Drafting autoinstall/preseed configurations...", "info")>>)
  /\ UNCHANGED <<exported, events>>

\* Lines 135-145: the 1000 ms timer fires; the invocation runs to its end.
Timer1000(b, i) ==
  /\ i <= Len(inv)
  /\ inv[i].pc = "t1000"
  /\ inv' = [inv EXCEPT ![i].pc = "done"]
  /\ Dispatch(b, << addLog("Synthesizing bootloader menu and kernel parameters...", "info"),
                    SetValue("generatedFiles", inv[i].files),
                    addLog("ISO Blueprint successfully synthesized!", "success"),
                    SetValue("activeStep", 2),
                    SetValue("isGenerating", FALSE) >>)
  /\ UNCHANGED <<exported, events>>

\* config.os.toLowerCase() (line 153).
ToLowerCase(os) ==
  CASE os = "Ubuntu" -> "ubuntu"
    [] os = "Debian" -> "debian"
    [] os = "Arch Linux" -> "arch linux"
    [] os = "Fedora" -> "fedora"
    [] os = "Alpine Linux" -> "alpine linux"

\* Mutant of downloadAll: JSON.stringify(generatedFiles[0], null, 2).
downloadAllFirstOnly(b) ==
  /\ UIEvent
  /\ HasFiles(generatedFiles)
  /\ exported' = Append(exported, [ download |-> "isoforge-" \o ToLowerCase(config.os) \o "-config.json",
                                    blob |-> JSONstringify(generatedFiles.a[1]) ])
  /\ Dispatch(b, <<addLog("Blueprint bundle downloaded successfully.", "success")>>)
  /\ UNCHANGED inv

\* Lines 148-156; the Download button is rendered while generatedFiles.length > 0
\* (lines 400-408).
downloadAll(b) ==
  /\ UIEvent
  /\ HasFiles(generatedFiles)
  /\ exported' = Append(exported, [ download |-> "isoforge-" \o ToLowerCase(config.os) \o "-config.json",
                                    blob |-> JSONstringify(generatedFiles) ])
  /\ Dispatch(b, <<addLog("Blueprint bundle downloaded successfully.", "success")>>)
  /\ UNCHANGED inv

----------------------------------------------------------------------------
(* Specifications.                                                         *)

Init ==
  /\ config = InitialConfig
  /\ newPackage = ""
  /\ isGenerating = FALSE
  /\ logs = <<>>
  /\ generatedFiles = EmptyFiles
  /\ activeStep = 1
  /\ pending = <<>>
  /\ inv = <<>>
  /\ exported = <<>>
  /\ crashed = FALSE
  /\ events = 0

\* Every package name of the model.
AllPackages ==
  UNION { {c.packages[j] : j \in 1..Len(c.packages)} :
            c \in {InitialConfig} \cup {TEMPLATES[t].config : t \in 1..Len(TEMPLATES)} }
    \cup (PackageInputs \ {""})

Invocations == 1..MaxInvocations

\* The steps of the invocations, which no UI event drives.
Async(b) ==
  \/ \E i \in Invocations, text \in (IF b THEN BatchResponses ELSE Responses) :
       CallResolves(i, text)
  \/ \E i \in Invocations, msg \in ErrorMessages : CallRejects(b, i, msg)
  \/ \E i \in Invocations : Timer800(b, i)
  \/ \E i \in Invocations : Timer600(b, i)
  \/ \E i \in Invocations : Timer1000(b, i)

UI(b) ==
  \/ \E t \in 1..Len(TEMPLATES) : loadTemplate(b, TEMPLATES[t].config)
  \/ \E text \in PackageInputs : TypePackage(b, text)
  \/ addPackage(b)
  \/ \E pkg \in AllPackages : removePackage(b, pkg)
  \/ SelectOS(b)
  \/ SelectArchitecture(b)
  \/ EditVersion(b)
  \/ EditHostname(b)
  \/ EditUsername(b)
  \/ ToggleCloudInit(b)
  \/ EditCustomScripts(b)
  \/ handleGenerate(b)
  \/ downloadAll(b)

Next == UI(FALSE) \/ Async(FALSE)

Spec == Init /\ [][Next]_vars

NextBatch == UI(TRUE) \/ Async(TRUE) \/ Render

SpecBatch == Init /\ [][NextBatch]_vars

\* The invocations make progress: the call resolves or rejects, the timers fire.
FairSpec == Spec /\ WF_vars(Async(FALSE))

\* The export on its own: any list of 1..MaxArtifacts artifacts is on display.
NameInputs == {"build.sh", ""}

ContentInputs ==
  { "", "\"", "\\", "\\n", "echo \"C:\\iso\"\t# done\r\n", "{\"name\": 1}", "]," }

LanguageInputs == {"bash"}

ArtifactInputs ==
  { JObj(<< [k |-> "name", v |-> JStr(n)], [k |-> "content", v |-> JStr(c)],
            [k |-> "language", v |-> JStr(l)] >>) :
      n \in NameInputs, c \in ContentInputs, l \in LanguageInputs }

ArtifactLists == UNION {[1..n -> ArtifactInputs] : n \in 1..MaxArtifacts}

InitExport ==
  /\ config = InitialConfig
  /\ newPackage = ""
  /\ isGenerating = FALSE
  /\ logs = <<>>
  /\ generatedFiles \in {JArr(l) : l \in ArtifactLists}
  /\ activeStep = 2
  /\ pending = <<>>
  /\ inv = <<>>
  /\ exported = <<>>
  /\ crashed = FALSE
  /\ events = 0

NextExport == downloadAll(FALSE)

SpecExport == InitExport /\ [][NextExport]_vars

----------------------------------------------------------------------------
(* Vocabulary of the properties.                                           *)

NoDuplicates(seq) == \A a, c \in 1..Len(seq) : a # c => seq[a] # seq[c]

\* Invocations that have not reached the end of handleGenerate.
Outstanding == {i \in 1..Len(inv) : inv[i].pc # "done"}

\* Invocations whose request is with the completion service.
InFlight == {i \in 1..Len(inv) : inv[i].pc = "call"}

\* Invocation i ends in this step.
Ends(i) == inv[i].pc # "done" /\ inv'[i].pc = "done"

ErrorEntries(l) == SelectSeq(l, LAMBDA e : e.type = "error")

Artifact(name, content, language) ==
  JObj(<< [k |-> "name", v |-> JStr(name)],
          [k |-> "content", v |-> JStr(content)],
          [k |-> "language", v |-> JStr(language)] >>)

\* An object with string-valued name, content and language.
IsArtifact(v) ==
  v.t = "object" /\ \A k \in {"name", "content", "language"} : Get(v, k).t = "string"

\* The text is JSON of the declared shape: an array of such objects.
Conforms(text) ==
  LET r == JSONparse(text) IN
  /\ r.ok
  /\ r.v.t = "array"
  /\ \A j \in 1..Len(r.v.a) : IsArtifact(r.v.a[j])

\* seq without the entries equal to x, the others in their order.
RECURSIVE Without(_, _)
Without(seq, x) ==
  IF seq = <<>> THEN <<>>
  ELSE IF Head(seq) = x THEN Without(Tail(seq), x)
  ELSE <<Head(seq)>> \o Without(Tail(seq), x)

\* The state the next render commits: the last render's values with the
\* queued updates applied.
Latest == ApplyAll(St, pending)

\* The queue holds nothing but the updates of addPackage and removePackage
\* calls (it may be empty).
PackageUpdatesOnly ==
  \A j \in 1..Len(pending) :
    \/ pending[j].fn \in {"appendPackage", "filterPackage"}
    \/ pending[j].hook = "newPackage"

\* The fields the form edits one at a time, and the values the model enters.
FieldInputs ==
  [ os |-> OSInputs, architecture |-> ArchInputs, version |-> VersionInputs,
    hostname |-> HostnameInputs, username |-> UsernameInputs,
    isCloudInitEnabled |-> BOOLEAN, customScripts |-> CustomScriptInputs ]

\* The log entry loadTemplate leaves first in the logs (lines 105-106).
LoadedEntries ==
  { [message |-> "Loaded " \o os \o " template configuration.", type |-> "info"] : os \in OS }

\* The log entries handleGenerate writes (lines 124-128, 132-142).
InvocationEntries ==
  { [message |-> "Initializing ISOForge AI engine...", type |-> "info"],
    [message |-> "Consulting AI Architect for optimal partitioning and package dependencies...",
     type |-> "info"],
    [message |-> "Analyzing package manifest...", type |-> "info"],
    [message |-> "Drafting autoinstall/preseed configurations...", type |-> "info"],
    [message |-> "Synthesizing bootloader menu and kernel parameters...", type |-> "info"],
    [message |-> "ISO Blueprint successfully synthesized!", type |-> "success"] }
  \cup { [message |-> "Architectural failure: " \o msg, type |-> "error"] : msg \in ErrorMessages }
  \cup { [message |-> "Target Distribution: " \o c.os \o " " \o c.version, type |-> "info"] :
           c \in {inv[i].config : i \in 1..Len(inv)} }

\* No handleGenerate has started since the most recent loadTemplate: both
\* handlers replace the logs and write their own first entry (lines 105-106,
\* 123-124), so the first entry tells which of them ran last.
LoadedLast == logs # <<>> /\ logs[1] \in LoadedEntries

----------------------------------------------------------------------------
(* C1: in every reachable state, also when several addPackage calls are    *)
(* issued before the component re-renders, no package name occurs twice in *)
(* config.packages.                                                        *)
C1_NoDuplicatePackages == NoDuplicates(config.packages)

(* C2: at most one handleGenerate invocation is outstanding, so at most    *)
(* one request is with the completion service, and while one is            *)
(* outstanding isGenerating is true (the Forge button is disabled).        *)
C2_SingleInvocation ==
  /\ Cardinality(Outstanding) <= 1
  /\ Cardinality(InFlight) <= 1
  /\ Outstanding # {} => isGenerating

\* A request is in flight while the event and invocation budgets would still
\* allow another handleGenerate.
C2_Witness ==
  /\ InFlight = {1}
  /\ isGenerating
  /\ events < MaxEvents
  /\ Len(inv) < MaxInvocations

(* C3: an invocation whose response text is not JSON of the declared shape *)
(* ends with an empty artifact list and exactly one error entry in the     *)
(* logs.                                                                   *)
C3_MalformedEndsAsFailure ==
  [][\A i \in 1..Len(inv) :
       (Ends(i) /\ inv'[i].outcome = "resolved" /\ ~Conforms(inv'[i].text)) =>
         /\ generatedFiles' = EmptyFiles
         /\ Len(ErrorEntries(logs')) = 1]_vars

(* C4: an invocation whose call rejects ends with an empty artifact list,  *)
(* exactly one error entry, which carries the failure's message, and       *)
(* isGenerating false; the rejection starts no new request, and no         *)
(* invocation ever issues a second one.                                    *)
C4_RejectionEndsAsFailure ==
  [][\A i \in 1..Len(inv) :
       /\ inv[i].pc # "call" => inv'[i].pc # "call"
       /\ (Ends(i) /\ inv'[i].outcome = "rejected") =>
            /\ generatedFiles' = EmptyFiles
            /\ ErrorEntries(logs') =
                 << [message |-> "Architectural failure: " \o inv'[i].text, type |-> "error"] >>
            /\ ~isGenerating'
            /\ Len(inv') = Len(inv)
            /\ InFlight' = {}]_vars

C4_Witness ==
  \E i \in 1..Len(inv) :
    /\ inv[i].pc = "done"
    /\ inv[i].outcome = "rejected"
    /\ inv[i].text = "fetch failed"
    /\ ~isGenerating
    /\ logs[Len(logs)] = [message |-> "Architectural failure: fetch failed", type |-> "error"]

(* C5: an invocation whose response text is a JSON array of N >= 1         *)
(* {name, content, language} objects ends with the artifact list equal to  *)
(* that array, N entries in the same order, and with no error entry in the *)
(* logs.                                                                   *)
C5_ConformingYieldsArtifacts ==
  [][\A i \in 1..Len(inv) :
       (/\ Ends(i)
        /\ inv'[i].outcome = "resolved"
        /\ Conforms(inv'[i].text)
        /\ JSONparse(inv'[i].text).v.a # <<>>) =>
         /\ generatedFiles' = JSONparse(inv'[i].text).v
         /\ Len(generatedFiles'.a) = Len(JSONparse(inv'[i].text).v.a)
         /\ ErrorEntries(logs') = <<>>]_vars

\* The two artifacts of TwoArtifacts, both named README.md, are the list.
C5_Witness ==
  /\ generatedFiles =
       JArr(<< Artifact("README.md", "# Build\nrun \"build.sh\"", "markdown"),
               Artifact("README.md", "C:\\iso\tout", "markdown") >>)
  /\ ~isGenerating
  /\ logs # <<>>
  /\ logs[Len(logs)].type = "success"
  /\ ErrorEntries(logs) = <<>>

(* C6: immediately after loadTemplate(t) every field of the configuration *)
(* is that of template t, and the logs and the artifact list are empty.    *)
C6_LoadTemplateClearsAll ==
  [][\A t \in 1..Len(TEMPLATES) :
       loadTemplate(FALSE, TEMPLATES[t].config) =>
         /\ config' = TEMPLATES[t].config
         /\ logs' = <<>>
         /\ generatedFiles' = EmptyFiles]_vars

(* C6, amended: immediately after loadTemplate(t) the configuration is     *)
(* that of template t, the artifact list is empty, and the logs hold one   *)
(* entry, the info entry that announces the template.                      *)
C6_LoadTemplateReplaces ==
  [][\A t \in 1..Len(TEMPLATES) :
       loadTemplate(FALSE, TEMPLATES[t].config) =>
         /\ config' = TEMPLATES[t].config
         /\ DOMAIN config' = DOMAIN TEMPLATES[t].config
         /\ generatedFiles' = EmptyFiles
         /\ logs' = << [ message |-> "Loaded " \o TEMPLATES[t].config.os
                                              \o " template configuration.",
                         type |-> "info" ] >>]_vars

\* The Debian template is loaded over an edited configuration, after an
\* invocation had put artifacts on display.
C6_Witness ==
  /\ config = TEMPLATES[2].config
  /\ generatedFiles = EmptyFiles
  /\ logs = <<[message |-> "Loaded Debian template configuration.", type |-> "info"]>>
  /\ \E i \in 1..Len(inv) :
       /\ inv[i].pc = "done"
       /\ HasFiles(inv[i].files)
       /\ inv[i].config.hostname = "build-01"

(* C7: isGenerating has two values; it becomes true only when              *)
(* handleGenerate starts and false only in the step that ends an           *)
(* invocation, the step that applies that invocation's artifact list and   *)
(* its terminal log entry; and, the call resolving or rejecting and the    *)
(* timers firing, every invocation ends and isGenerating returns to false. *)
C7_GenerationStateMachine ==
  /\ [](isGenerating \in BOOLEAN)
  /\ [][/\ (~isGenerating /\ isGenerating') => Len(inv') = Len(inv) + 1
        /\ Len(inv') = Len(inv) + 1 => (~isGenerating /\ isGenerating')
        /\ \A i \in 1..Len(inv) : Ends(i) => (isGenerating /\ ~isGenerating')
        /\ (isGenerating /\ ~isGenerating') =>
             \E i \in 1..Len(inv) :
               /\ Ends(i)
               /\ logs' # <<>>
               /\ IF inv'[i].outcome = "resolved"
                    THEN /\ generatedFiles' = inv'[i].files
                         /\ logs'[Len(logs')] =
                              [message |-> "ISO Blueprint successfully synthesized!",
                               type |-> "success"]
                    ELSE /\ generatedFiles' = EmptyFiles
                         /\ logs'[Len(logs')] =
                              [message |-> "Architectural failure: " \o inv'[i].text,
                               type |-> "error"]]_vars
  /\ isGenerating ~> (~isGenerating /\ Outstanding = {})

\* Back at Idle after an invocation that succeeded and one that failed.
C7_Witness ==
  /\ ~isGenerating
  /\ Len(inv) = 2
  /\ inv[1].pc = "done" /\ inv[1].outcome = "resolved"
  /\ inv[2].pc = "done" /\ inv[2].outcome = "rejected"

(* C8: the document downloadAll exports parses back to the artifact list   *)
(* itself (the same length, and record by record the same name, content    *)
(* and language), and the export leaves the artifact list, the             *)
(* configuration and isGenerating unchanged.                               *)
C8_ExportRoundTrip ==
  [][downloadAll(FALSE) =>
       /\ JSONparse(exported'[Len(exported')].blob) = [ok |-> TRUE, v |-> generatedFiles]
       /\ generatedFiles' = generatedFiles
       /\ config' = config
       /\ isGenerating' = isGenerating]_vars

\* A list of two artifacts whose contents hold quotes, backslashes and control
\* characters has been exported.
C8_Witness ==
  /\ exported # <<>>
  /\ Len(generatedFiles.a) = 2
  /\ Get(generatedFiles.a[1], "content") = JStr("echo \"C:\\iso\"\t# done\r\n")
  /\ Get(generatedFiles.a[2], "content") = JStr("\\n")
  /\ JSONparse(exported[1].blob) = [ok |-> TRUE, v |-> generatedFiles]

(* C9: requests that differ in a field of the configuration (the version   *)
(* among them) are sent different prompts.                                 *)
C9_PromptStatesEveryField ==
  \A i, j \in 1..Len(inv) : inv[i].config # inv[j].config => inv[i].prompt # inv[j].prompt

(* C10: the call is the only suspension point of an invocation, and no     *)
(* change to isGenerating, the logs or the artifact list is made before it *)
(* has returned.                                                           *)
C10_CallIsOnlySuspension ==
  [][/\ handleGenerate(FALSE) =>
          /\ isGenerating' = isGenerating
          /\ logs' = logs
          /\ generatedFiles' = generatedFiles
     /\ \A i \in 1..Len(inv') : inv'[i].pc \in {"call", "done"}]_vars

(* C10, amended: handleGenerate sets isGenerating, empties the artifact    *)
(* list and replaces the logs by three info entries before it issues the   *)
(* call; the call is the first of four suspension points: its return       *)
(* changes no state, the 800 ms and 600 ms timers that follow append one   *)
(* info entry each, and the artifact list is filled only in the step after *)
(* the 1000 ms timer, which ends the invocation.                           *)
C10_SuspensionPoints ==
  [][/\ handleGenerate(FALSE) =>
          /\ isGenerating'
          /\ generatedFiles' = EmptyFiles
          /\ Len(logs') = 3
          /\ \A j \in 1..3 : logs'[j].type = "info"
          /\ inv'[Len(inv')].pc = "call"
     /\ \A i \in 1..Len(inv) :
          /\ <<inv[i].pc, inv'[i].pc>> \in
               { <<"call", "call">>, <<"t800", "t800">>, <<"t600", "t600">>,
                 <<"t1000", "t1000">>, <<"done", "done">>,
                 <<"call", "t800">>, <<"call", "done">>, <<"t800", "t600">>,
                 <<"t600", "t1000">>, <<"t1000", "done">> }
          /\ (inv[i].pc = "call" /\ inv'[i].pc = "t800") => UNCHANGED hooks
          /\ (inv[i].pc = "t800" /\ inv'[i].pc = "t600") =>
               /\ logs' = Append(logs, [message |-> "Analyzing package manifest...",
                                         type |-> "info"])
               /\ UNCHANGED <<isGenerating, generatedFiles>>
          /\ (inv[i].pc = "t600" /\ inv'[i].pc = "t1000") =>
               /\ logs' = Append(logs, [message |-> "Drafting autoinstall/preseed configurations...",
                                         type |-> "info"])
               /\ UNCHANGED <<isGenerating, generatedFiles>>
     /\ (generatedFiles' # generatedFiles /\ generatedFiles' # EmptyFiles) =>
          \E i \in 1..Len(inv) : inv[i].pc = "t1000" /\ inv'[i].pc = "done"]_vars

\* A template was loaded between the 800 ms and the 600 ms timer of an
\* invocation: a UI event ran at a suspension point after the call's return.
C10_Witness ==
  /\ \E i \in 1..Len(inv) : inv[i].pc = "t1000"
  /\ Len(logs) = 2
  /\ logs[1].message = "Loaded Debian template configuration."
  /\ logs[2].message = "Drafting autoinstall/preseed configurations..."
  /\ isGenerating

(* C11: handleGenerate empties the artifact list; an invocation that fails *)
(* (its call rejects, or the response text does not parse) ends with the   *)
(* list empty, also when an earlier invocation had filled it; an           *)
(* invocation that succeeds ends with the list equal to the parsed         *)
(* response of that invocation alone; and the list becomes anything but    *)
(* empty only in the step that ends an invocation whose call resolved.     *)
C11_NoRetainedArtifacts ==
  [][/\ handleGenerate(FALSE) => generatedFiles' = EmptyFiles
     /\ \A i \in 1..Len(inv) :
          Ends(i) =>
            generatedFiles' =
              IF inv'[i].outcome = "resolved" /\ JSONparse(inv'[i].text).ok
                THEN JSONparse(inv'[i].text).v
                ELSE EmptyFiles
     /\ (generatedFiles' # generatedFiles /\ generatedFiles' # EmptyFiles) =>
          \E i \in 1..Len(inv) : Ends(i) /\ inv'[i].outcome = "resolved"]_vars

\* The second invocation failed after the first had put artifacts on display:
\* the list is empty, and idle.
C11_Witness ==
  /\ Len(inv) = 2
  /\ inv[1].pc = "done" /\ inv[1].outcome = "resolved" /\ HasFiles(inv[1].files)
  /\ inv[2].pc = "done" /\ inv[2].outcome = "rejected"
  /\ generatedFiles = EmptyFiles
  /\ ~isGenerating
  /\ ~crashed

(* C12: addPackage with a non-empty name that is not in config.packages    *)
(* appends it at the end, the entries before it and every other field as   *)
(* they were; addPackage with an empty name or one in the list changes     *)
(* neither the configuration nor the logs; removePackage(p) leaves the     *)
(* list without p, the other entries in their order, and every other field *)
(* as it was.                                                              *)
C12_PackageListEdits ==
  [][/\ addPackage(FALSE) =>
          IF newPackage # "" /\ \A j \in 1..Len(config.packages) : config.packages[j] # newPackage
            THEN /\ Len(config'.packages) = Len(config.packages) + 1
                 /\ SubSeq(config'.packages, 1, Len(config.packages)) = config.packages
                 /\ config'.packages[Len(config'.packages)] = newPackage
                 /\ [config' EXCEPT !.packages = config.packages] = config
            ELSE /\ config' = config
                 /\ logs' = logs
     /\ \A p \in AllPackages :
          removePackage(FALSE, p) =>
            /\ config'.packages = Without(config.packages, p)
            /\ \A j \in 1..Len(config'.packages) : config'.packages[j] # p
            /\ [config' EXCEPT !.packages = config.packages] = config]_vars

\* nginx was added at the end of the initial list and curl removed from its
\* middle.
C12_Witness ==
  /\ config.packages = <<"vim", "docker.io", "git", "nginx">>
  /\ [config EXCEPT !.packages = InitialConfig.packages] = InitialConfig
  /\ newPackage = ""
  /\ events = 3

(* C13: an edit of one field of the configuration changes that field and   *)
(* nothing else: in the state the next render commits, the package list    *)
(* and every other field have the value they would have had without the    *)
(* edit, whether the edit is alone in its batch or the updates of          *)
(* addPackage and removePackage calls are queued before it, and the logs,  *)
(* the artifact list and isGenerating are as they would have been.         *)
C13_EditChangesOneField ==
  [][\A f \in DOMAIN FieldInputs : \A v \in FieldInputs[f] :
       (PackageUpdatesOnly /\ EditField(TRUE, f, v)) =>
         /\ Latest'.config = [Latest.config EXCEPT ![f] = v]
         /\ Latest'.logs = Latest.logs
         /\ Latest'.generatedFiles = Latest.generatedFiles
         /\ Latest'.isGenerating = Latest.isGenerating]_vars

(* C14: when a template has been loaded and no invocation has started      *)
(* since, also when an invocation was outstanding at the time of the load, *)
(* the artifact list is empty and the logs hold no entry written by an     *)
(* invocation: what an invocation older than the most recent loadTemplate  *)
(* produces does not reappear.                                             *)
C14_NoStaleResult ==
  LoadedLast =>
    /\ ~HasFiles(generatedFiles)
    /\ \A j \in 1..Len(logs) : logs[j] \notin InvocationEntries

====
